---- MODULE Spec2Model ----
(***************************************************************************)
(* byml_mapper: incremental indexing of a corpus of byml files             *)
(* (src/byml_mapper.py).  The model follows generate_cache: load the       *)
(* pickled cache, walk the dump for new *.byml files, map process_match    *)
(* over them in a process pool, merge the results in submission order and  *)
(* dump the cache back to .cached_results.                                 *)
(***************************************************************************)
EXTENDS Integers, Sequences, FiniteSets, TLC

\* ------------------------------------------------------------------ bounds
\* Number of files that can exist under the dump directory.
NumFiles == 6
\* Largest value of --threads tried.
MaxThreads == 2
\* Number of merges applied in a row by the merge specification.
MaxMerges == 2
\* Number of distinct paths the merge specification merges.
LabFiles == 2

Files == 1..NumFiles

\* ------------------------------------------------------------- the corpus
\* A byml value of type U64 (read with .v in the source).
U64(n) == [v |-> n]

\* Instance names are strings in the source; they are numbered with negative
\* integers here so that they never equal a hash (hashes are unsigned).
InstanceNameA == 0 - 1

\* The documents on disk, by kind.  ext is the file name's extension,
\* readable is whether open() succeeds, valid is whether
\* oead.byml.from_binary accepts the bytes, root is the shape of the decoded
\* document and body maps the document's keys to their values.
DocBoth ==
    [ext |-> "byml", readable |-> TRUE, valid |-> TRUE, root |-> "dict",
     body |-> [Actors |-> <<[Hash |-> U64(7), Gyaml |-> "Door"]>>,
               AiGroups |-> <<[References |-> <<[Reference |-> U64(9)]>>]>>]]
DocCollide ==
    [ext |-> "byml", readable |-> TRUE, valid |-> TRUE, root |-> "dict",
     body |-> [Actors |-> <<[Hash |-> U64(7), Gyaml |-> "Door"],
                            [Hash |-> U64(9), Gyaml |-> "Door"],
                            [Hash |-> U64(7), Gyaml |-> "Door"]>>,
               FarDeleteGroups |-> << <<U64(7), U64(7)>> >>]]
DocCorrupt ==
    [ext |-> "byml", readable |-> TRUE, valid |-> FALSE, root |-> "dict",
     body |-> <<>>]
DocRefsOnly ==
    [ext |-> "byml", readable |-> TRUE, valid |-> TRUE, root |-> "dict",
     body |-> [AiGroups |-> <<[References |-> <<[InstanceName |-> InstanceNameA],
                                                 [Other |-> U64(7)]>>],
                              [Name |-> InstanceNameA]>>,
               FarDeleteGroups |-> << <<U64(9)>> >>,
               SimultaneousGroups |-> << <<U64(9)>>, <<U64(7), U64(9)>> >>]]
DocNoHash ==
    [ext |-> "byml", readable |-> TRUE, valid |-> TRUE, root |-> "dict",
     body |-> [Actors |-> <<[Hash |-> U64(9), Gyaml |-> "Switch"],
                            [Gyaml |-> "Door"]>>]]
DocText ==
    [ext |-> "txt", readable |-> TRUE, valid |-> FALSE, root |-> "dict",
     body |-> <<>>]
DocArray ==
    [ext |-> "byml", readable |-> TRUE, valid |-> TRUE, root |-> "array",
     body |-> <<>>]
DocUnreadable ==
    [ext |-> "byml", readable |-> FALSE, valid |-> TRUE, root |-> "dict",
     body |-> <<>>]

Docs ==
    <<DocBoth, DocCollide, DocCorrupt, DocRefsOnly, DocNoHash, DocText,
      DocArray, DocUnreadable>>

\* The content of file f: the kinds repeat when there are more files.
Disk(f) == Docs[((f - 1) % Len(Docs)) + 1]

\* pathlib.Path(root, file_) and Path.as_posix(): a Path object and the
\* string naming it.  The dump root is the same in every run.
Path(f) == [path |-> f]
as_posix(p) == p.path
Posix(paths) == {as_posix(p) : p \in paths}

\* fnmatch.fnmatch(file_, "*.byml")
fnmatch(f) == Disk(f).ext = "byml"

\* ------------------------------------------------------------- extraction
\* json.dumps({"Hash": h, "Gyaml": g}, sort_keys=True): the keys in sorted
\* order with their values; json.loads reads it back.
json_dumps(rec) == <<"Gyaml", rec.Gyaml, "Hash", rec.Hash>>
json_loads(s) == [Hash |-> s[4], Gyaml |-> s[2]]

Range(s) == {s[i] : i \in DOMAIN s}

\* find_actors: raised is TRUE when an actor lacks "Hash" or "Gyaml"
\* (KeyError, not caught).
find_actors(byml) ==
    IF byml.root # "dict" \/ "Actors" \notin DOMAIN byml.body
    THEN [raised |-> FALSE, actors |-> {}]
    ELSE LET all_actors_ == byml.body["Actors"] IN
         IF \E i \in DOMAIN all_actors_ :
                ~({"Hash", "Gyaml"} \subseteq DOMAIN all_actors_[i])
         THEN [raised |-> TRUE, actors |-> {}]
         ELSE [raised |-> FALSE,
               actors |-> {json_dumps([Hash |-> all_actors_[i]["Hash"].v,
                                       Gyaml |-> all_actors_[i]["Gyaml"]]) :
                               i \in DOMAIN all_actors_}]

\* The target of one element of a group's References list, as a set: the
\* "Reference" field, else the "InstanceName" field, else nothing.
reference_target(reference) ==
    IF "Reference" \in DOMAIN reference THEN {reference["Reference"].v}
    ELSE IF "InstanceName" \in DOMAIN reference
         THEN {reference["InstanceName"]}
         ELSE {}

find_ai_group_references(byml) ==
    IF byml.root # "dict" \/ "AiGroups" \notin DOMAIN byml.body
    THEN {}
    ELSE LET ai_groups == byml.body["AiGroups"]
             all_references_(g) ==
                 IF "References" \in DOMAIN g THEN g["References"] ELSE <<>>
         IN UNION {UNION {reference_target(all_references_(ai_groups[i])[j]) :
                              j \in DOMAIN all_references_(ai_groups[i])} :
                       i \in DOMAIN ai_groups}

find_generic_array_references(key, byml) ==
    IF byml.root # "dict" \/ key \notin DOMAIN byml.body
    THEN {}
    ELSE LET groups == byml.body[key] IN
         UNION {{groups[i][j].v : j \in DOMAIN groups[i]} : i \in DOMAIN groups}

\* process_match(filepath): raised is TRUE when an exception leaves the
\* function (open() fails, or find_actors raises); a decode failure
\* (oead.InvalidDataError) is caught and gives the empty pair.
process_match(f) ==
    LET byml == Disk(f)
        found == find_actors(byml)
    IN  IF ~byml.readable
        THEN [raised |-> TRUE, actors |-> {}, refs |-> {}]
        ELSE IF ~byml.valid
        THEN [raised |-> FALSE, actors |-> {}, refs |-> {}]
        ELSE IF found.raised
        THEN [raised |-> TRUE, actors |-> {}, refs |-> {}]
        ELSE [raised |-> FALSE,
              actors |-> found.actors,
              refs |-> find_ai_group_references(byml)
                       \cup find_generic_array_references("FarDeleteGroups", byml)
                       \cup find_generic_array_references("SimultaneousGroups", byml)]

\* Whether decoding f fails (the except branch of process_match).
DecodeFails(f) == Disk(f).readable /\ ~Disk(f).valid

\* ------------------------------------------------------------- the index
EmptyDict == [k \in {} |-> {}]

\* The three containers of the cache: "actors", "references", "files".
EmptyIndex == [actors |-> EmptyDict, references |-> EmptyDict, files |-> {}]

\* Merge with the path marked visited only when the result is not empty.
MergeSkipEmpty(idx, path_, actors, refs) ==
    [actors |-> [k \in DOMAIN idx.actors \cup actors |->
                    IF k \in actors THEN path_ ELSE idx.actors[k]],
     references |-> [r \in DOMAIN idx.references \cup refs |->
                    IF r \in refs
                    THEN (IF r \in DOMAIN idx.references
                          THEN idx.references[r] ELSE {}) \cup {path_}
                    ELSE idx.references[r]],
     files |-> IF actors = {} /\ refs = {}
               THEN idx.files
               ELSE idx.files \cup {as_posix(path_)}]

\* Merge with the sourcing files kept in a list that is appended to.
MergeAppend(idx, path_, actors, refs) ==
    [actors |-> [k \in DOMAIN idx.actors \cup actors |->
                    IF k \in actors THEN path_ ELSE idx.actors[k]],
     references |-> [r \in DOMAIN idx.references \cup refs |->
                    IF r \in refs
                    THEN Append(IF r \in DOMAIN idx.references
                                THEN idx.references[r] ELSE <<>>, path_)
                    ELSE idx.references[r]],
     files |-> idx.files \cup {as_posix(path_)}]

\* Merge with the sourcing set assigned instead of added to.
MergeOverwriteRefs(idx, path_, actors, refs) ==
    [actors |-> [k \in DOMAIN idx.actors \cup actors |->
                    IF k \in actors THEN path_ ELSE idx.actors[k]],
     references |-> [r \in DOMAIN idx.references \cup refs |->
                    IF r \in refs THEN {path_} ELSE idx.references[r]],
     files |-> idx.files \cup {as_posix(path_)}]

\* Merge that keeps the defining file an actor already has.
MergeFirstWins(idx, path_, actors, refs) ==
    [actors |-> [k \in DOMAIN idx.actors \cup actors |->
                    IF k \in DOMAIN idx.actors THEN idx.actors[k] ELSE path_],
     references |-> [r \in DOMAIN idx.references \cup refs |->
                    IF r \in refs
                    THEN (IF r \in DOMAIN idx.references
                          THEN idx.references[r] ELSE {}) \cup {path_}
                    ELSE idx.references[r]],
     files |-> idx.files \cup {as_posix(path_)}]

\* Merge that does not record the path as visited.
MergeNoVisited(idx, path_, actors, refs) ==
    [actors |-> [k \in DOMAIN idx.actors \cup actors |->
                    IF k \in actors THEN path_ ELSE idx.actors[k]],
     references |-> [r \in DOMAIN idx.references \cup refs |->
                    IF r \in refs
                    THEN (IF r \in DOMAIN idx.references
                          THEN idx.references[r] ELSE {}) \cup {path_}
                    ELSE idx.references[r]],
     files |-> idx.files]

\* The body of the reducing loop for one result of the pool:
\* all_actors[actor] = path_ for every actor, all_references[ref].add(path_)
\* for every ref (a defaultdict(set)), cached_filepaths.add(path_.as_posix()).
Merge(idx, path_, actors, refs) ==
    [actors |-> [k \in DOMAIN idx.actors \cup actors |->
                    IF k \in actors THEN path_ ELSE idx.actors[k]],
     references |-> [r \in DOMAIN idx.references \cup refs |->
                    IF r \in refs
                    THEN (IF r \in DOMAIN idx.references
                          THEN idx.references[r] ELSE {}) \cup {path_}
                    ELSE idx.references[r]],
     files |-> idx.files \cup {as_posix(path_)}]

\* ------------------------------------------------------------- the state
VARIABLES
    corpus,             \* the files under the dump directory
    artifact,           \* the file .cached_results
    pc,                 \* where the generating process is; "idle": none runs
    threads,            \* the --threads argument of the run
    all_actors,         \* generate_cache's local all_actors
    all_references,     \* generate_cache's local all_references
    cached_filepaths,   \* generate_cache's local cached_filepaths
    matched_filepaths,  \* generate_cache's local matched_filepaths
    fut,                \* the pool's futures, one per chunk
    next,               \* position of the next result the loop consumes
    outcome,            \* how the last run ended
    extracted,          \* files process_match was called on in the run
    start,              \* .cached_results as the run found it
    folded,             \* paths whose results the loop has merged (memory)
    diskFolded,         \* paths whose results are in .cached_results
    resumed,            \* set when the previous run was interrupted
    lab,                \* the merge specification's record of its merges
    res,                \* the results the finished chunks returned
    walk,               \* what os.walk could not read in the run's scan
    query               \* the query process: its arguments and what it got

vars ==
    <<corpus, artifact, pc, threads, all_actors, all_references,
      cached_filepaths, matched_filepaths, fut, next, outcome, extracted,
      start, folded, diskFolded, resumed, lab, res, walk, query>>

\* .cached_results: missing, a complete pickle, or an opened and not yet
\* completely written file.
Absent == [kind |-> "absent", index |-> EmptyIndex]
Truncated == [kind |-> "truncated", index |-> EmptyIndex]
Pickle(idx) == [kind |-> "pickle", index |-> idx]

Index == [actors |-> all_actors, references |-> all_references,
          files |-> cached_filepaths]

NoResume == [flag |-> FALSE, base |-> Absent, merged |-> 0]
LabOff == [n |-> 0, base |-> EmptyIndex, prev |-> EmptyIndex, hist |-> <<>>]

\* No query process runs.
NoQuery ==
    [type_ |-> "", item |-> "", before |-> Absent, raised |-> "",
     returned |-> FALSE, found_references |-> <<>>,
     cached_results |-> EmptyIndex]

Init ==
    /\ corpus \in SUBSET Files
    /\ artifact = Absent
    /\ pc = "idle"
    /\ threads = 1
    /\ all_actors = EmptyDict
    /\ all_references = EmptyDict
    /\ cached_filepaths = {}
    /\ matched_filepaths = <<>>
    /\ fut = <<>>
    /\ next = 1
    /\ outcome = "none"
    /\ extracted = {}
    /\ start = Absent
    /\ folded = {}
    /\ diskFolded = {}
    /\ resumed = NoResume
    /\ lab = LabOff
    /\ res = <<>>
    /\ walk = "none"
    /\ query = NoQuery

\* ------------------------------------------------------------ generation
\* Ascending sequence of the members of a set of files: the order in which
\* os.walk lists an unchanged dump.
RECURSIVE SeqOfSet(_)
SeqOfSet(S) ==
    IF S = {} THEN <<>>
    ELSE LET m == CHOOSE x \in S : \A y \in S : x <= y
         IN <<m>> \o SeqOfSet(S \ {m})

\* The scan loop: the files under the dump that match "*.byml" and whose
\* as_posix() is not in cached_filepaths, as Path objects, in walk order.
Scan(files, visited) ==
    LET new == {f \in files : fnmatch(f) /\ as_posix(Path(f)) \notin visited}
        order == SeqOfSet(new)
    IN [i \in DOMAIN order |-> Path(order[i])]

\* The files of the dump lie in its root directory or in one directory
\* under it.  os.walk is called without onerror, so a directory it cannot
\* list is skipped without an error: with the subdirectory unreadable the
\* walk lists the root's files only, with the root unreadable it lists
\* nothing.
InSubdir(f) == f % 2 = 0
WalkErrors == {"none", "subdir", "root"}
Walked(files, w) ==
    IF w = "none" THEN files
    ELSE IF w = "subdir" THEN {f \in files : ~InSubdir(f)}
    ELSE {}

\* chunksize = len(matched_filepaths) // (2 * threads)
chunksize == Len(matched_filepaths) \div (2 * threads)

\* The chunks the pool's map cuts the list into, and the chunk of position i.
NumChunks == (Len(matched_filepaths) + chunksize - 1) \div chunksize
ChunkOf(i) == ((i - 1) \div chunksize) + 1
ChunkPositions(c) == {i \in DOMAIN matched_filepaths : ChunkOf(i) = c}
FileAt(i) == as_posix(matched_filepaths[i])

\* _process_chunk runs process_match over the chunk in order and stops at
\* the first call that raises.
ChunkRaises(c) == \E i \in ChunkPositions(c) : process_match(FileAt(i)).raised
ChunkCalled(c) ==
    {FileAt(i) : i \in {j \in ChunkPositions(c) :
        \A k \in ChunkPositions(c) :
            k < j => ~process_match(FileAt(k)).raised}}

\* The list _process_chunk returns for chunk c: the results of its paths in
\* order (nothing is returned when a call raised).
ChunkResults(c) ==
    IF ChunkRaises(c) THEN <<>>
    ELSE [j \in 1..Cardinality(ChunkPositions(c)) |->
            LET file_data == process_match(FileAt((c - 1) * chunksize + j))
            IN [actors |-> file_data.actors, refs |-> file_data.refs]]

\* The i-th result with each chunk's list taken from its end.
ResultAtReversed(i) ==
    LET c == ChunkOf(i)
    IN res[c][Len(res[c]) + 1 - (i - (c - 1) * chunksize)]

\* The i-th result the iterator of p.map yields: the chunks' lists chained
\* in submission order.
ResultAt(i) ==
    LET c == ChunkOf(i)
    IN res[c][i - (c - 1) * chunksize]

\* The process ends: its locals are gone.
Exit(o) ==
    /\ pc' = "idle"
    /\ outcome' = o
    /\ all_actors' = EmptyDict
    /\ all_references' = EmptyDict
    /\ cached_filepaths' = {}
    /\ fut' = <<>>
    /\ res' = <<>>
    /\ next' = 1
    /\ folded' = {}

\* The try block that loads .cached_results, reading the file art.  A
\* missing file is an OSError and leaves the empty containers; a file that
\* is not a complete pickle makes pickle.load raise an error that is not an
\* OSError and ends the process.
LoadCache(t, art) ==
    /\ threads' = t
    /\ start' = art
    /\ extracted' = {}
    /\ matched_filepaths' = <<>>
    /\ walk' = "none"
    /\ IF art.kind = "truncated"
       THEN Exit("LoadError")
       ELSE /\ pc' = "loaded"
            /\ outcome' = "running"
            /\ all_actors' = art.index.actors
            /\ all_references' = art.index.references
            /\ cached_filepaths' = art.index.files
            /\ folded' = diskFolded'
            /\ fut' = <<>>
            /\ res' = <<>>
            /\ next' = 1

\* main with the generate action or --update-cache: generate_cache(t, dump).
GenStart(t) ==
    /\ pc = "idle"
    /\ UNCHANGED <<corpus, artifact, diskFolded, lab, query>>
    /\ resumed' = IF outcome = "completed" THEN NoResume ELSE resumed
    /\ LoadCache(t, artifact)

\* main with --regenerate-cache: unlink .cached_results, then generate_cache.
Regenerate(t) ==
    /\ pc = "idle"
    /\ artifact' = Absent
    /\ diskFolded' = {}
    /\ UNCHANGED <<corpus, lab, query>>
    /\ resumed' = NoResume
    /\ LoadCache(t, Absent)

\* The walk of the dump; with nothing new generate_cache returns.
ScanStep ==
    /\ pc = "loaded"
    /\ \E w \in WalkErrors :
          /\ walk' = w
          /\ matched_filepaths' = Scan(Walked(corpus, w), cached_filepaths)
    /\ UNCHANGED <<corpus, artifact, threads, extracted, start, diskFolded,
                   resumed, lab, query>>
    /\ IF Len(matched_filepaths') = 0
       THEN Exit("nothing")
       ELSE /\ pc' = "scanned"
            /\ UNCHANGED <<all_actors, all_references, cached_filepaths, fut,
                           res, next, outcome, folded>>

\* Submit with every candidate marked visited when it is handed to the pool.
SubmitMarksVisited ==
    /\ pc = "scanned"
    /\ UNCHANGED <<corpus, artifact, threads, matched_filepaths, extracted,
                   start, diskFolded, resumed, lab, walk, query>>
    /\ IF chunksize < 1
       THEN Exit("ValueError")
       ELSE /\ pc' = "pool"
            /\ fut' = [c \in 1..NumChunks |-> "pending"]
            /\ res' = [c \in 1..NumChunks |-> <<>>]
            /\ next' = 1
            /\ cached_filepaths' = cached_filepaths \cup Posix(Range(matched_filepaths))
            /\ UNCHANGED <<all_actors, all_references, outcome, folded>>

\* p.map(process_match, matched_filepaths, chunksize=chunksize): a chunksize
\* below 1 raises ValueError before anything is submitted; otherwise every
\* chunk is submitted at once.
Submit ==
    /\ pc = "scanned"
    /\ UNCHANGED <<corpus, artifact, threads, matched_filepaths, extracted,
                   start, diskFolded, resumed, lab, walk, query>>
    /\ IF chunksize < 1
       THEN Exit("ValueError")
       ELSE /\ pc' = "pool"
            /\ fut' = [c \in 1..NumChunks |-> "pending"]
            /\ res' = [c \in 1..NumChunks |-> <<>>]
            /\ next' = 1
            /\ UNCHANGED <<all_actors, all_references, cached_filepaths,
                           outcome, folded>>

\* A worker that merges the first result of its chunk into the index of the
\* coordinating process.
WorkerRunMerging(c) ==
    /\ pc = "pool"
    /\ c \in DOMAIN fut
    /\ fut[c] = "pending"
    /\ Cardinality({d \in 1..(c - 1) : fut[d] = "pending"}) < threads
    /\ fut' = [fut EXCEPT ![c] = IF ChunkRaises(c) THEN "raised" ELSE "done"]
    /\ res' = [res EXCEPT ![c] = ChunkResults(c)]
    /\ extracted' = extracted \cup ChunkCalled(c)
    /\ LET i == (c - 1) * chunksize + 1
           merged == IF ChunkRaises(c) THEN Index
                     ELSE Merge(Index, matched_filepaths[i],
                                ChunkResults(c)[1].actors, ChunkResults(c)[1].refs)
       IN /\ all_actors' = merged.actors
          /\ all_references' = merged.references
          /\ cached_filepaths' = merged.files
    /\ UNCHANGED <<corpus, artifact, pc, threads, matched_filepaths, next,
                   outcome, start, folded, diskFolded, resumed, lab, walk,
                   query>>

\* A worker finishes chunk c.  Chunks are taken in order by at most
\* `threads` workers, so fewer than `threads` earlier chunks are unfinished.
WorkerRun(c) ==
    /\ pc = "pool"
    /\ c \in DOMAIN fut
    /\ fut[c] = "pending"
    /\ Cardinality({d \in 1..(c - 1) : fut[d] = "pending"}) < threads
    /\ fut' = [fut EXCEPT ![c] = IF ChunkRaises(c) THEN "raised" ELSE "done"]
    /\ res' = [res EXCEPT ![c] = ChunkResults(c)]
    /\ extracted' = extracted \cup ChunkCalled(c)
    /\ UNCHANGED <<corpus, artifact, pc, threads, all_actors, all_references,
                   cached_filepaths, matched_filepaths, next, outcome, start,
                   folded, diskFolded, resumed, lab, walk, query>>

\* Consume with the visited set written to .cached_results at every merge,
\* ahead of the declarations and references.
ConsumeWriteThrough ==
    /\ pc = "pool"
    /\ next \in DOMAIN matched_filepaths
    /\ fut[ChunkOf(next)] # "pending"
    /\ UNCHANGED <<corpus, threads, matched_filepaths, extracted,
                   start, diskFolded, resumed, lab, walk, query>>
    /\ IF fut[ChunkOf(next)] = "raised"
       THEN Exit("WorkerError") /\ UNCHANGED artifact
       ELSE LET path_ == matched_filepaths[next]
                file_data == ResultAt(next)
                merged == Merge(Index, path_, file_data.actors, file_data.refs)
            IN /\ all_actors' = merged.actors
               /\ all_references' = merged.references
               /\ cached_filepaths' = merged.files
               /\ artifact' = Pickle([artifact.index EXCEPT !.files = merged.files])
               /\ folded' = folded \cup {path_}
               /\ next' = next + 1
               /\ pc' = IF next = Len(matched_filepaths) THEN "persist" ELSE "pool"
               /\ UNCHANGED <<fut, res, outcome>>

\* One round of the loop over zip(matched_filepaths, p.map(...)): the next
\* result in submission order.  A chunk whose worker raised re-raises here
\* and the exception leaves generate_cache; otherwise the result is merged.
Consume ==
    /\ pc = "pool"
    /\ next \in DOMAIN matched_filepaths
    /\ fut[ChunkOf(next)] # "pending"
    /\ UNCHANGED <<corpus, artifact, threads, matched_filepaths, extracted,
                   start, diskFolded, resumed, lab, walk, query>>
    /\ IF fut[ChunkOf(next)] = "raised"
       THEN Exit("WorkerError")
       ELSE LET path_ == matched_filepaths[next]
                file_data == ResultAt(next)
                merged == Merge(Index, path_, file_data.actors, file_data.refs)
            IN /\ all_actors' = merged.actors
               /\ all_references' = merged.references
               /\ cached_filepaths' = merged.files
               /\ folded' = folded \cup {path_}
               /\ next' = next + 1
               /\ pc' = IF next = Len(matched_filepaths) THEN "persist" ELSE "pool"
               /\ UNCHANGED <<fut, res, outcome>>

\* open(".cached_results", "wb"): the file exists and is empty.
PersistOpen ==
    /\ pc = "persist"
    /\ pc' = "writing"
    /\ artifact' = Truncated
    /\ diskFolded' = {}
    /\ UNCHANGED <<corpus, threads, all_actors, all_references,
                   cached_filepaths, matched_filepaths, fut, res, next,
                   outcome, extracted, start, folded, resumed, lab, walk, query>>

\* pickle.dump completes and the file is closed; generate_cache returns.
PersistDump ==
    /\ pc = "writing"
    /\ artifact' = Pickle(Index)
    /\ diskFolded' = folded
    /\ Exit("completed")
    /\ UNCHANGED <<corpus, threads, matched_filepaths, extracted, start,
                   resumed, lab, walk, query>>

\* The process is killed from outside at any point of a run.
Interrupt ==
    /\ pc \notin {"idle", "lab", "queried"}
    /\ Exit("interrupted")
    /\ resumed' = IF pc # "writing"
                  THEN [flag |-> TRUE, base |-> start, merged |-> next - 1]
                  ELSE NoResume
    /\ UNCHANGED <<corpus, artifact, threads, matched_filepaths, extracted,
                   start, diskFolded, lab, walk, query>>

\* Between runs a file appears under the dump.
AddFile(f) ==
    /\ pc = "idle"
    /\ f \notin corpus
    /\ corpus' = corpus \cup {f}
    /\ outcome' = "none"
    /\ extracted' = {}
    /\ matched_filepaths' = <<>>
    /\ resumed' = NoResume
    /\ walk' = "none"
    /\ UNCHANGED <<artifact, pc, threads, all_actors, all_references,
                   cached_filepaths, fut, res, next, start, folded, diskFolded,
                   lab, query>>

\* ------------------------------------------------------------------ query
\* `byml_mapper gyaml X` and `byml_mapper hash X`: the attribute and the
\* identifier of the command line, always a string.
QueryArgs ==
    {<<"Gyaml", "Door">>, <<"Gyaml", "7">>, <<"Hash", "7">>, <<"Hash", "9">>,
     <<"Hash", "Door">>}

\* open(".cached_results") answering an empty cache for a missing file.
OpenOrEmpty(art) ==
    IF art.kind = "truncated"
    THEN [raised |-> "EOFError", cached_results |-> EmptyIndex]
    ELSE [raised |-> "", cached_results |-> art.index]

\* open(".cached_results", "rb") and pickle.load, outside any try: a missing
\* file raises FileNotFoundError, a file whose dump did not finish makes
\* pickle.load raise.
OpenCache(art) ==
    IF art.kind = "absent"
    THEN [raised |-> "FileNotFoundError", cached_results |-> EmptyIndex]
    ELSE IF art.kind = "truncated"
    THEN [raised |-> "EOFError", cached_results |-> EmptyIndex]
    ELSE [raised |-> "", cached_results |-> art.index]

\* all_references[k]: the mapping is a defaultdict(set), so the lookup of a
\* missing key stores an empty set under it and returns that.
Lookup(d, k) ==
    [value |-> IF k \in DOMAIN d THEN d[k] ELSE {},
     dict |-> [j \in DOMAIN d \cup {k} |-> IF j \in DOMAIN d THEN d[j] ELSE {}]]

\* str(n) of an identity.
str(n) == ToString(n)

\* actor[type_], an integer turned into its decimal string, compared with
\* the identifier.
Matches(actor, type_, item) ==
    IF type_ = "Hash" THEN str(actor.Hash) = item ELSE actor.Gyaml = item

\* A result that carries its list of files even when the list is empty.
ReferenceAlwaysFiles(actor, actor_file, refs) ==
    [hash |-> actor.Hash, gyaml |-> actor.Gyaml,
     source |-> as_posix(actor_file), files |-> SeqOfSet(Posix(refs))]

\* One result: "files" lists each member of the sourcing set once and is
\* left out when the set is empty.
Reference(actor, actor_file, refs) ==
    IF refs # {}
    THEN [hash |-> actor.Hash, gyaml |-> actor.Gyaml,
          source |-> as_posix(actor_file), files |-> SeqOfSet(Posix(refs))]
    ELSE [hash |-> actor.Hash, gyaml |-> actor.Gyaml,
          source |-> as_posix(actor_file)]

\* The loop over all_actors.items(): acc holds found_references and the
\* loaded references mapping.
RECURSIVE SearchLoop(_, _, _, _, _)
SearchLoop(keys, actors_, type_, item, acc) ==
    IF keys = {} THEN acc
    ELSE LET key == CHOOSE k \in keys : TRUE
             actor == json_loads(key)
         IN IF Matches(actor, type_, item)
            THEN LET got == Lookup(acc.references, actor.Hash)
                 IN SearchLoop(keys \ {key}, actors_, type_, item,
                      [found_references |->
                          Append(acc.found_references,
                                 Reference(actor, actors_[key], got.value)),
                       references |-> got.dict])
            ELSE SearchLoop(keys \ {key}, actors_, type_, item, acc)

\* search_for_refs(type_, item) over the cache file art: what it raised,
\* whether it returned, the list it returned, and the loaded index as the
\* call left it.
search_for_refs(type_, item, art) ==
    LET opened == OpenCache(art)
        loaded == opened.cached_results
        out == SearchLoop(DOMAIN loaded.actors, loaded.actors, type_, item,
                          [found_references |-> <<>>,
                           references |-> loaded.references])
    IN IF opened.raised # ""
       THEN [raised |-> opened.raised, returned |-> FALSE,
             found_references |-> <<>>, cached_results |-> EmptyIndex]
       ELSE [raised |-> "", returned |-> TRUE,
             found_references |-> out.found_references,
             cached_results |-> [loaded EXCEPT !.references = out.references]]

\* A query process runs search_for_refs on the cache file; an exception
\* leaves main uncaught.
Query(type_, item) ==
    /\ pc = "idle"
    /\ pc' = "queried"
    /\ LET r == search_for_refs(type_, item, artifact)
       IN query' = [type_ |-> type_, item |-> item, before |-> artifact,
                    raised |-> r.raised, returned |-> r.returned,
                    found_references |-> r.found_references,
                    cached_results |-> r.cached_results]
    /\ UNCHANGED <<corpus, artifact, threads, all_actors, all_references,
                   cached_filepaths, matched_filepaths, fut, next, outcome,
                   extracted, start, folded, diskFolded, resumed, lab, res,
                   walk>>

\* The query process has printed its results or its traceback and exits.
QueryDone ==
    /\ pc = "queried"
    /\ pc' = "idle"
    /\ query' = NoQuery
    /\ UNCHANGED <<corpus, artifact, threads, all_actors, all_references,
                   cached_filepaths, matched_filepaths, fut, next, outcome,
                   extracted, start, folded, diskFolded, resumed, lab, res,
                   walk>>

Next ==
    \/ \E t \in 1..MaxThreads : GenStart(t)
    \/ \E t \in 1..MaxThreads : Regenerate(t)
    \/ ScanStep
    \/ Submit
    \/ \E c \in 1..(2 * MaxThreads + NumFiles) : WorkerRun(c)
    \/ Consume
    \/ PersistOpen
    \/ PersistDump
    \/ Interrupt
    \/ \E f \in Files : AddFile(f)
    \/ \E a \in QueryArgs : Query(a[1], a[2])
    \/ QueryDone

Spec == Init /\ [][Next]_vars

\* ------------------------------------------------------- derived notions
\* The files of the run's candidate list.
Batch == {FileAt(i) : i \in DOMAIN matched_filepaths}

\* The run is over and was not killed from outside.
Ended == pc = "idle" /\ outcome \in {"nothing", "ValueError", "WorkerError", "completed"}

\* The files handed to the pool's workers: none when map raised ValueError.
Submitted == IF outcome = "ValueError" THEN {} ELSE Batch

\* The corpus files with the recognised extension that are not in the
\* visited set of the cache art.
DeltaOf(art, files) == {f \in files : fnmatch(f) /\ f \notin art.index.files}

\* Merging the results of the paths from position i on, in order.
RECURSIVE MergeAll(_, _, _)
MergeAll(idx, paths, i) ==
    IF i > Len(paths) THEN idx
    ELSE LET file_data == process_match(as_posix(paths[i]))
         IN MergeAll(Merge(idx, paths[i], file_data.actors, file_data.refs),
                     paths, i + 1)

\* The cache a run over the corpus leaves when it starts from the cache art
\* and nothing stops it.
Generate(art, files) == MergeAll(art.index, Scan(files, art.index.files), 1)

\* ------------------------------------------------------------------ claims
\* C1: the files submitted to extraction in a generation run are exactly the
\* corpus files with the recognised extension whose path is not in the
\* persisted visited set; in particular one new file is submitted alone and
\* an unchanged corpus submits nothing.
C1_DeltaSubmitted ==
    (walk = "none" /\ (pc \in {"pool", "persist", "writing"} \/ Ended))
        => Submitted = DeltaOf(start, corpus)

\* C2: for every non-empty candidate list and every width N >= 1, when every
\* candidate decodes or fails to decode, the chunk size handed to the pool is
\* at least 1, extraction is invoked for every candidate and the run reaches
\* its persist step with every candidate visited.
C2_EveryCandidateExtracted ==
    (Len(matched_filepaths) >= 1 /\ \A f \in Batch : ~process_match(f).raised)
        => /\ pc = "scanned" => chunksize >= 1
           /\ Ended => /\ outcome = "completed"
                       /\ extracted = Batch
                       /\ Batch \subseteq artifact.index.files

\* C3: in a batch where one file fails to decode and the others decode,
\* process_match gives the empty pair for the failing file, every other file
\* is extracted and merged, and after the run declarations and references
\* hold exactly the records of the files that decoded.
C3_DecodeFaultIsolation ==
    LET bad == {f \in Batch : DecodeFails(f)}
        valid == SelectSeq(matched_filepaths,
                           LAMBDA p : ~DecodeFails(as_posix(p)))
        expected == MergeAll(start.index, valid, 1)
    IN (Ended /\ Cardinality(bad) = 1
              /\ \A f \in Batch : ~process_match(f).raised)
        => /\ \A f \in bad : /\ process_match(f).actors = {}
                             /\ process_match(f).refs = {}
           /\ extracted = Batch
           /\ artifact.kind = "pickle"
           /\ artifact.index.actors = expected.actors
           /\ artifact.index.references = expected.references

\* C4: when extraction of one file of a batch the pool accepted raises an
\* error other than a decode failure, the other files are still extracted
\* and merged, the file contributes nothing and the run persists the index.
C4_CrashFaultIsolation ==
    LET bad == {f \in Batch : process_match(f).raised}
        good == SelectSeq(matched_filepaths,
                          LAMBDA p : ~process_match(as_posix(p)).raised)
        expected == MergeAll(start.index, good, 1)
    IN (Ended /\ outcome # "ValueError" /\ Cardinality(bad) = 1)
        => /\ outcome = "completed"
           /\ Batch \ bad \subseteq extracted
           /\ artifact.kind = "pickle"
           /\ artifact.index.actors = expected.actors
           /\ artifact.index.references = expected.references

\* C5: after each merge of a run, and in every persisted cache, a path is in
\* visited exactly when that file's result (possibly empty) has been merged
\* into declarations and references.
C5_VisitedIffMerged ==
    /\ pc \in {"loaded", "scanned", "pool", "persist", "writing"}
          => cached_filepaths = Posix(folded)
    /\ artifact.kind = "pickle" => artifact.index.files = Posix(diskFolded)

\* C5 witness: a merge has happened in a run that started from a cache with
\* visited files, and the file merged last had an empty result.
C5_Witness ==
    /\ pc = "pool"
    /\ next > 1
    /\ process_match(FileAt(next - 1)).actors = {}
    /\ process_match(FileAt(next - 1)).refs = {}
    /\ artifact.kind = "pickle"
    /\ artifact.index.files # {}

\* C6 as stated: no file whose decoding failed is ever in visited, in memory
\* or in the persisted cache.
C6_FailedNeverVisited ==
    \A f \in Files :
        DecodeFails(f) => /\ as_posix(Path(f)) \notin cached_filepaths
                          /\ as_posix(Path(f)) \notin artifact.index.files

\* The paths that declarations or references of an index name.
Named(idx) ==
    {idx.actors[k] : k \in DOMAIN idx.actors}
        \cup UNION {idx.references[r] : r \in DOMAIN idx.references}

\* C6 amended: a file whose decoding failed is in visited only once its
\* empty result has been merged, and no declaration or reference names it.
C6_FailedVisitedOnlyWhenMerged ==
    \A f \in Files :
        DecodeFails(f) =>
            /\ as_posix(Path(f)) \in cached_filepaths => Path(f) \in folded
            /\ as_posix(Path(f)) \in artifact.index.files => Path(f) \in diskFolded
            /\ Path(f) \notin Named(Index)
            /\ Path(f) \notin Named(artifact.index)

\* C6 witness: a file whose decoding failed is in the persisted visited set
\* beside a file that contributed records.
C6_Witness ==
    /\ artifact.kind = "pickle"
    /\ \E f \in Files : DecodeFails(f) /\ as_posix(Path(f)) \in artifact.index.files
    /\ Named(artifact.index) # {}

\* C7: at every point of a run the persisted cache is the complete cache the
\* run found (or absent) or the complete new cache, never an empty or
\* partly written file.
C7_AtomicPersist ==
    /\ artifact.kind # "truncated"
    /\ pc \in {"loaded", "scanned", "pool", "persist", "writing"}
          => artifact = start

\* C8: a run that completes after an earlier run was interrupted before its
\* persist step, over the same corpus, leaves the cache an uninterrupted run
\* leaves: the cache the interrupted run found, with every file of the delta
\* merged once in scan order.
C8_SafeResume ==
    (pc = "idle" /\ outcome = "completed" /\ walk = "none")
        => artifact = Pickle(Generate(IF resumed.flag THEN resumed.base ELSE start,
                                      corpus))

\* C8 witness: a run completed after a run that was interrupted when it had
\* merged at least one file, and two files of the delta declare the same
\* actor.
C8_Witness ==
    /\ pc = "idle"
    /\ outcome = "completed"
    /\ walk = "none"
    /\ resumed.flag
    /\ resumed.merged >= 1
    /\ \E f, g \in DeltaOf(resumed.base, corpus) :
          /\ f # g
          /\ process_match(f).actors \cap process_match(g).actors # {}

\* ------------------------------------------------ the merge specification
\* The results merged: a path with a set of declared actors and a set of
\* reference targets.
LabActors ==
    {json_dumps([Hash |-> 7, Gyaml |-> "Door"]),
     json_dumps([Hash |-> 7, Gyaml |-> "Switch"])}
LabRefs == {7}
Triples ==
    [path : {Path(f) : f \in 1..LabFiles}, actors : SUBSET LabActors,
     refs : SUBSET LabRefs]

MergeTriple(idx, t) == Merge(idx, t.path, t.actors, t.refs)

\* The index is empty or holds one merged result; nothing has been merged
\* by the specification yet.
LabInit ==
    /\ corpus = {}
    /\ artifact = Absent
    /\ pc = "lab"
    /\ threads = 1
    /\ \E idx \in {EmptyIndex} \cup {MergeTriple(EmptyIndex, t) : t \in Triples} :
          /\ all_actors = idx.actors
          /\ all_references = idx.references
          /\ cached_filepaths = idx.files
          /\ lab = [n |-> 0, base |-> idx, prev |-> idx, hist |-> <<>>]
    /\ matched_filepaths = <<>>
    /\ fut = <<>>
    /\ next = 1
    /\ outcome = "none"
    /\ extracted = {}
    /\ start = Absent
    /\ folded = {}
    /\ diskFolded = {}
    /\ resumed = NoResume
    /\ res = <<>>
    /\ walk = "none"
    /\ query = NoQuery

\* One result is merged into the index; lab keeps the last two results
\* merged, the index before the last merge (prev) and before the last two
\* (base).
LabMerge(t) ==
    /\ pc = "lab"
    /\ lab.n < MaxMerges
    /\ LET merged == MergeTriple(Index, t)
       IN /\ all_actors' = merged.actors
          /\ all_references' = merged.references
          /\ cached_filepaths' = merged.files
    /\ lab' = [n |-> lab.n + 1,
               base |-> lab.prev,
               prev |-> Index,
               hist |-> IF lab.hist = <<>> THEN <<t>>
                        ELSE <<lab.hist[Len(lab.hist)], t>>]
    /\ UNCHANGED <<corpus, artifact, pc, threads, matched_filepaths, fut, next,
                   outcome, extracted, start, folded, diskFolded, resumed, res,
                   walk, query>>

LabNext == \E t \in Triples : LabMerge(t)

MergeSpec == LabInit /\ [][LabNext]_vars

\* C9: merging one file's result a second time, right after merging it,
\* leaves declarations, references and visited as the first merge left them.
C9_IdempotentMerge ==
    lab.hist # <<>> => MergeTriple(Index, lab.hist[Len(lab.hist)]) = Index

\* C9 witness: a result with an actor and a reference was merged into an
\* index in which another path already declared that actor and had that
\* reference.
C9_Witness ==
    /\ lab.hist # <<>>
    /\ LET t == lab.hist[Len(lab.hist)]
       IN /\ t.actors # {}
          /\ t.refs # {}
          /\ \E k \in t.actors : k \in DOMAIN lab.prev.actors
                                 /\ lab.prev.actors[k] # t.path
          /\ \E r \in t.refs : r \in DOMAIN lab.prev.references
                               /\ t.path \notin lab.prev.references[r]

\* C10 as stated: the results of two different paths merged in either order
\* give the same declarations, references and visited, whatever they declare.
C10_CommutativeMerge ==
    (Len(lab.hist) = 2 /\ lab.hist[1].path # lab.hist[2].path)
        => MergeTriple(MergeTriple(lab.base, lab.hist[2]), lab.hist[1]) = Index

\* C10 amended: the results of two different paths merged in either order
\* give the same references and visited, and the same declarations when the
\* two declare no common actor; an actor both declare is defined by the path
\* merged last.
C10_CommutativeUnlessCollision ==
    (Len(lab.hist) = 2 /\ lab.hist[1].path # lab.hist[2].path)
        => LET t1 == lab.hist[1]
               t2 == lab.hist[2]
               other == MergeTriple(MergeTriple(lab.base, t2), t1)
           IN /\ other.references = Index.references
              /\ other.files = Index.files
              /\ t1.actors \cap t2.actors = {} => other.actors = Index.actors
              /\ \A k \in t1.actors \cap t2.actors :
                    Index.actors[k] = t2.path /\ other.actors[k] = t1.path

\* C10 witness: two different paths were merged that have a reference
\* target in common and declare different actors.
C10_Witness ==
    /\ Len(lab.hist) = 2
    /\ lab.hist[1].path # lab.hist[2].path
    /\ lab.hist[1].refs \cap lab.hist[2].refs # {}
    /\ lab.hist[1].actors # {}
    /\ lab.hist[2].actors # {}
    /\ lab.hist[1].actors \cap lab.hist[2].actors = {}

\* The declaration keys of the index idx that carry the identity h.
KeysOf(idx, h) == {k \in DOMAIN idx.actors : json_loads(k).Hash = h}

\* C11 as stated: declarations holds at most one record for each identity,
\* and when the file merged last declared the identity, the record has that
\* file's type name and that file as its defining file, whatever type names
\* earlier files gave the identity.
C11_LastMergeWinsPerIdentity ==
    /\ \A k \in DOMAIN Index.actors : KeysOf(Index, json_loads(k).Hash) = {k}
    /\ lab.hist # <<>> =>
          LET last == lab.hist[Len(lab.hist)]
          IN \A k \in last.actors :
                \A j \in KeysOf(Index, json_loads(k).Hash) :
                    Index.actors[j] = last.path

\* C11 amended: declarations holds one record for each pair of identity and
\* type name that the index before the merges or a merged file declared, and
\* the record's defining file is the most recently merged file that declared
\* that pair; a record of the same identity under another type name stays as
\* it was.
C11_LastMergeWinsPerKey ==
    LET declared == UNION {lab.hist[i].actors : i \in DOMAIN lab.hist}
    IN /\ DOMAIN Index.actors = DOMAIN lab.base.actors \cup declared
       /\ \A k \in DOMAIN Index.actors :
             LET declaring == {i \in DOMAIN lab.hist : k \in lab.hist[i].actors}
             IN IF declaring = {}
                THEN Index.actors[k] = lab.base.actors[k]
                ELSE \E i \in declaring :
                        /\ \A j \in declaring : j <= i
                        /\ Index.actors[k] = lab.hist[i].path

\* C11 witness: two different paths were merged one after the other, both
\* declare identity 7 as a Door, only the first declares it as a Switch too,
\* and the index holds both records of identity 7.
C11_Witness ==
    /\ Len(lab.hist) = 2
    /\ lab.hist[1].path # lab.hist[2].path
    /\ lab.hist[1].actors = LabActors
    /\ lab.hist[2].actors = {json_dumps([Hash |-> 7, Gyaml |-> "Door"])}
    /\ Cardinality(KeysOf(Index, 7)) = 2

\* ------------------------------------------------- claims on the index
\* The reference targets of the corpus.
Targets == {7, 9, InstanceNameA}

\* The sourcing set of target t in the mapping refs_, empty when t has no
\* entry.
Sourcing(refs_, t) == IF t \in DOMAIN refs_ THEN refs_[t] ELSE {}

\* The merged paths whose extraction produced the target t.
Producers(paths, t) == {p \in paths : t \in process_match(as_posix(p)).refs}

\* C12: after any sequence of merges, in memory and in every persisted
\* cache, references[t] is exactly the set of merged files whose extraction
\* produced the target t, each file once however often it references t, and
\* references has no entry for anything else.
C12_ReferenceAggregation ==
    /\ pc \in {"loaded", "scanned", "pool", "persist", "writing"}
          => /\ DOMAIN all_references \subseteq Targets
             /\ \A t \in Targets :
                   Sourcing(all_references, t) = Producers(folded, t)
    /\ artifact.kind = "pickle"
          => /\ DOMAIN artifact.index.references \subseteq Targets
             /\ \A t \in Targets :
                   Sourcing(artifact.index.references, t) = Producers(diskFolded, t)

\* C12 witness: the persisted cache has exactly two sourcing files for
\* identity 9: file 1, and file 4, which references 9 in its FarDeleteGroups
\* and twice in its SimultaneousGroups.
C12_Witness ==
    /\ artifact.kind = "pickle"
    /\ 9 \in DOMAIN artifact.index.references
    /\ artifact.index.references[9] = {Path(1), Path(4)}

\* C19: in memory after each merge and in every persisted cache, every
\* defining file of declarations and every file of a sourcing set of
\* references is in visited.
C19_ReferentialClosure ==
    /\ \A p \in Named(Index) : as_posix(p) \in cached_filepaths
    /\ \A p \in Named(artifact.index) : as_posix(p) \in artifact.index.files

\* C19 witness: a run that loaded a cache naming files has merged a result
\* and its index names a file the cache does not.
C19_Witness ==
    /\ pc = "pool"
    /\ next > 1
    /\ artifact.kind = "pickle"
    /\ Named(artifact.index) # {}
    /\ Named(Index) \ Named(artifact.index) # {}

\* The index b has every visited path, every declaration key and every
\* member of every sourcing set that the index a has.
Grows(a, b) ==
    /\ a.files \subseteq b.files
    /\ DOMAIN a.actors \subseteq DOMAIN b.actors
    /\ \A r \in DOMAIN a.references :
          r \in DOMAIN b.references /\ a.references[r] \subseteq b.references[r]

\* C20: visited, the key set of declarations and every sourcing set of
\* references never lose a member: not when a run loads the cache, not in a
\* merge of the run, and not when a completed run replaces the cache it
\* loaded (the empty cache after a regeneration) by its index.
C20_MonotonicGrowth ==
    [][/\ (pc = "idle" /\ pc' = "loaded") => Grows(artifact'.index, Index')
       /\ (pc = "pool" /\ pc' \in {"pool", "persist"}) => Grows(Index, Index')
       /\ (pc = "writing" /\ artifact'.kind = "pickle")
             => Grows(start.index, artifact'.index)]_vars

\* C20 witness: a completed update run has replaced a cache with sourcing
\* sets by one in which a sourcing set is larger.
C20_Witness ==
    /\ pc = "idle"
    /\ outcome = "completed"
    /\ start.kind = "pickle"
    /\ artifact.kind = "pickle"
    /\ \E r \in DOMAIN start.index.references :
          /\ start.index.references[r] # {}
          /\ start.index.references[r] # artifact.index.references[r]

\* ------------------------------------------------- claims on the queries
\* The attribute of a declaration that a query compares: the type name, or
\* the identity as its decimal string.
AttributeOf(actor, type_) ==
    IF type_ = "Gyaml" THEN actor.Gyaml ELSE ToString(actor.Hash)

\* The declaration keys of the index idx that the query (type_, item)
\* selects.
Selected(idx, type_, item) ==
    {k \in DOMAIN idx.actors : AttributeOf(json_loads(k), type_) = item}

\* C13: a query that returns gives exactly one result for every declaration
\* whose queried attribute (the type name, or the identity as its decimal
\* string) equals the value, and no other result; the result has the
\* declaration's identity, type name and defining file, and its list of
\* files has exactly the members of references[identity], each once, and is
\* left out when that set is empty.
C13_QueryResult ==
    (pc = "queried" /\ query.returned) =>
        LET idx == query.before.index
            found == query.found_references
            selected == Selected(idx, query.type_, query.item)
        IN /\ Len(found) = Cardinality(selected)
           /\ \A k \in selected :
                 \E i \in DOMAIN found :
                    LET sourcing == Sourcing(idx.references, json_loads(k).Hash)
                    IN /\ found[i].hash = json_loads(k).Hash
                       /\ found[i].gyaml = json_loads(k).Gyaml
                       /\ found[i].source = as_posix(idx.actors[k])
                       /\ IF sourcing = {}
                          THEN "files" \notin DOMAIN found[i]
                          ELSE /\ "files" \in DOMAIN found[i]
                               /\ Range(found[i].files) = Posix(sourcing)
                               /\ Len(found[i].files) = Cardinality(sourcing)

\* C13 witness: a query by type name returned two results, one with a list
\* of files and one without.
C13_Witness ==
    /\ pc = "queried"
    /\ query.returned
    /\ query.type_ = "Gyaml"
    /\ Len(query.found_references) = 2
    /\ \E i, j \in DOMAIN query.found_references :
          /\ "files" \in DOMAIN query.found_references[i]
          /\ "files" \notin DOMAIN query.found_references[j]

\* C14: a query issued when no cache file exists ends with
\* FileNotFoundError leaving main, returns no list, and leaves the cache
\* file missing.
C14_MissingIndexQuery ==
    (pc = "queried" /\ query.before.kind = "absent") =>
        /\ query.raised = "FileNotFoundError"
        /\ ~query.returned
        /\ query.found_references = <<>>
        /\ artifact = Absent

\* C14 witness: a query by identity was issued over a dump with files when
\* no cache file existed.
C14_Witness ==
    /\ pc = "queried"
    /\ query.before.kind = "absent"
    /\ query.type_ = "Hash"
    /\ corpus # {}

\* C15: a run whose traversal could not read the root or a directory under
\* it ends with a fatal I/O error and leaves the persisted cache as the run
\* found it.
C15_FatalScanFailure ==
    walk # "none" => (outcome = "OSError" /\ artifact = start)

\* C16: whatever the order in which the workers finish, the result the
\* reducer consumes next is the extraction result of the next submitted
\* path, and the index is the cache the run loaded with the results of the
\* consumed paths merged in submission order.
C16_OrderPreservingReduce ==
    /\ (pc = "pool" /\ next \in DOMAIN matched_filepaths
            /\ fut[ChunkOf(next)] = "done")
          => LET file_data == process_match(FileAt(next))
             IN ResultAt(next) = [actors |-> file_data.actors,
                                  refs |-> file_data.refs]
    /\ pc \in {"pool", "persist", "writing"}
          => Index = MergeAll(start.index,
                              SubSeq(matched_filepaths, 1, next - 1), 1)
    /\ pc \in {"persist", "writing"} => next = Len(matched_filepaths) + 1

\* C16 witness: a later chunk has finished while an earlier one has not,
\* and the reducer has consumed a result with actors and references.
C16_Witness ==
    /\ pc = "pool"
    /\ next > 1
    /\ all_actors # EmptyDict
    /\ all_references # EmptyDict
    /\ \E c, d \in DOMAIN fut : c < d /\ fut[c] = "pending" /\ fut[d] = "done"

\* C17 as stated: no merge has changed the index of a run while a chunk of
\* the batch is still with the workers.
C17_MergeAfterWorkers ==
    (pc = "pool" /\ next > 1) => \A c \in DOMAIN fut : fut[c] # "pending"

\* C17 amended: the index of a run changes only in the reducing loop of the
\* coordinating process, by the merge of the next path's result, after the
\* worker of that path's chunk has returned; a step of a worker leaves the
\* index alone.  Later chunks may still be with the workers.
C17_MergeOnlyInReducer ==
    [][(pc = "pool" /\ pc' \in {"pool", "persist"}) =>
          /\ fut' # fut => Index' = Index
          /\ Index' # Index =>
                /\ fut' = fut
                /\ fut[ChunkOf(next)] = "done"
                /\ next' = next + 1
                /\ Index' = Merge(Index, matched_filepaths[next],
                                  process_match(FileAt(next)).actors,
                                  process_match(FileAt(next)).refs)]_vars

\* C17 witness: a result has been merged while a later chunk is still with
\* the workers.
C17_Witness ==
    /\ pc = "pool"
    /\ next > 1
    /\ Index # start.index
    /\ \E c \in DOMAIN fut : fut[c] = "pending"

\* C18: a query that returns leaves the cache file as it was and the loaded
\* index equal to what was loaded: same declarations, same references (same
\* keys, same sets), same visited.
C18_ReadOnlyQuery ==
    (pc = "queried" /\ query.returned) =>
        /\ artifact = query.before
        /\ query.cached_results = query.before.index

====
